---------------------------- MODULE Spec2Model ----------------------------
(***************************************************************************)
(* A model of the movie rating application in src/app.py: the three        *)
(* tables (User, Movie, Review), the login session of each client, and one *)
(* action per request handler.  Strings are sequences of character codes,  *)
(* so that length limits, ordering and digit tests are computed on them.   *)
(***************************************************************************)
EXTENDS Integers, Sequences, FiniteSets, TLC

VARIABLES
    users,      \* the user table, in rowid order
    movies,     \* the movie table, in rowid order
    reviews,    \* the review table, in rowid order
    session,    \* client -> the user id kept in its session cookie (0: none)
    pend,       \* client -> a register request validated but not yet committed
    resp,       \* the response to the request handled last
    registered, \* history: user id -> the plaintext given at registration
    presented   \* history: client -> the credentials that opened its session

vars == <<users, movies, reviews, session, pend, resp, registered, presented>>

-----------------------------------------------------------------------------
(* Bounds of the model *)

MaxMovies == 2

MaxReviews == 2

(* Limits set by the forms *)

UsernameMin == 4

UsernameMax == 25

EmailMin == 6

EmailMax == 100

TitleMax == 100

YearLen == 4

DirectorMax == 100

CommentMax == 500

Clients == {1, 2}

NoReq == [kind |-> "none"]

None == [kind |-> "None"]

-----------------------------------------------------------------------------
(* Strings *)

\* Character codes: 32 space, 45 "-", 46 ".", 48..57 digits, 64 "@".
Digits == 48..57

Repeat(ch, n) == [i \in 1..n |-> ch]

IsBlank(s) == \A i \in 1..Len(s) : s[i] = 32

AllDigits(s) == \A i \in 1..Len(s) : s[i] \in Digits

RECURSIVE DecimalValue(_)
DecimalValue(s) ==
    IF s = <<>> THEN 0
    ELSE 10 * DecimalValue(SubSeq(s, 1, Len(s) - 1)) + (s[Len(s)] - 48)

\* Bytewise comparison, the BINARY collation of the store.
RECURSIVE StrLess(_, _)
StrLess(a, b) ==
    IF b = <<>> THEN FALSE
    ELSE IF a = <<>> THEN TRUE
    ELSE IF a[1] # b[1] THEN a[1] < b[1]
    ELSE StrLess(Tail(a), Tail(b))

-----------------------------------------------------------------------------
(* Validators *)

DataRequired(s) == s # <<>> /\ ~IsBlank(s)

Length(s, min, max) == Len(s) >= min /\ Len(s) <= max

EqualTo(s, other) == s = other

\* One "@", a non-empty local part, a dot inside the domain.
Email(s) ==
    \E i \in 2..Len(s) :
        /\ s[i] = 64
        /\ \A j \in 1..Len(s) : s[j] = 64 => j = i
        /\ \A j \in 1..Len(s) : s[j] # 32
        /\ \E k \in (i + 2)..(Len(s) - 1) : s[k] = 46

-----------------------------------------------------------------------------
(* Credential store *)

RECURSIVE Digest(_, _)
Digest(salt, password) ==
    IF password = <<>> THEN salt
    ELSE (Digest(salt, SubSeq(password, 1, Len(password) - 1)) * 31
            + password[Len(password)]) % 65536

generate_password_hash(password, salt) ==
    [salt |-> salt, digest |-> Digest(salt, password)]

\* A verification that accepts every password.
check_password_hash_any(pwhash, password) == TRUE

check_password_hash(pwhash, password) ==
    Digest(pwhash.salt, password) = pwhash.digest

set_password(user, password, salt) ==
    [user EXCEPT !.password_hash = generate_password_hash(password, salt)]

check_password(user, password) ==
    check_password_hash(user.password_hash, password)

-----------------------------------------------------------------------------
(* Tables and queries *)

Rows(table) == {table[i] : i \in 1..Len(table)}

NextId(table) == Len(table) + 1

Get(table, id) ==
    IF id \in 1..Len(table) THEN table[id] ELSE None

\* User.query.filter_by(username=...).first()
UserByUsername(username) ==
    IF \E i \in 1..Len(users) : users[i].username = username
    THEN users[CHOOSE i \in 1..Len(users) :
                  /\ users[i].username = username
                  /\ \A j \in 1..(i - 1) : users[j].username # username]
    ELSE None

\* Only the username column declared unique.
UniqueViolation_usernameOnly(user) ==
    \E u \in Rows(users) : u.username = user.username

\* The UNIQUE constraints of the user table, checked when a row is inserted.
UniqueViolation(user) ==
    \E u \in Rows(users) : u.username = user.username \/ u.email = user.email

load_user(user_id) == Get(users, user_id)

\* A value bound to an INTEGER column: text that is a numeral is stored as
\* an integer, any other text is stored as it is.
StoreInteger(s) ==
    IF s # <<>> /\ AllDigits(s)
    THEN [type |-> "integer", value |-> DecimalValue(s)]
    ELSE [type |-> "text", value |-> s]

\* The orders in which the store may visit the rows of a table.
Scans(table) ==
    {[i \in 1..Len(table) |-> table[p[i]]] : p \in Permutations(1..Len(table))}

\* No ORDER BY: the rows as the scan delivers them.
Unordered(rows) == rows

RECURSIVE OrderByTitle(_)
OrderByTitle(rows) ==
    IF rows = <<>> THEN <<>>
    ELSE LET sorted == OrderByTitle(SubSeq(rows, 1, Len(rows) - 1))
             r == rows[Len(rows)]
             k == Cardinality({i \in 1..Len(sorted) : ~StrLess(r.title, sorted[i].title)})
         IN  SubSeq(sorted, 1, k) \o <<r>> \o SubSeq(sorted, k + 1, Len(sorted))

\* ORDER BY timestamp without desc().
RECURSIVE OrderByTimestampAsc(_)
OrderByTimestampAsc(rows) ==
    IF rows = <<>> THEN <<>>
    ELSE LET sorted == OrderByTimestampAsc(SubSeq(rows, 1, Len(rows) - 1))
             r == rows[Len(rows)]
             k == Cardinality({i \in 1..Len(sorted) : sorted[i].timestamp <= r.timestamp})
         IN  SubSeq(sorted, 1, k) \o <<r>> \o SubSeq(sorted, k + 1, Len(sorted))

RECURSIVE OrderByTimestampDesc(_)
OrderByTimestampDesc(rows) ==
    IF rows = <<>> THEN <<>>
    ELSE LET sorted == OrderByTimestampDesc(SubSeq(rows, 1, Len(rows) - 1))
             r == rows[Len(rows)]
             k == Cardinality({i \in 1..Len(sorted) : sorted[i].timestamp >= r.timestamp})
         IN  SubSeq(sorted, 1, k) \o <<r>> \o SubSeq(sorted, k + 1, Len(sorted))

current_user(c) == load_user(session[c])

is_authenticated(c) == current_user(c) # None

-----------------------------------------------------------------------------
(* Responses *)

Response(op, c, outcome, errors, body) ==
    [op |-> op, client |-> c, outcome |-> outcome, errors |-> errors, body |-> body]

Success(op, c) == Response(op, c, "Success", {}, <<>>)

Page(op, c, body) == Response(op, c, "Success", {}, body)

FormErrors(op, c, errors) == Response(op, c, "ValidationError", errors, <<>>)

Failure(op, c, outcome) == Response(op, c, outcome, {}, <<>>)

-----------------------------------------------------------------------------
(* Forms *)

RegistrationFormErrors(f) ==
      (IF DataRequired(f.username) /\ Length(f.username, UsernameMin, UsernameMax)
       THEN {} ELSE {"username"})
    \cup
      (IF DataRequired(f.email) /\ Email(f.email) /\ Length(f.email, EmailMin, EmailMax)
       THEN {} ELSE {"email"})
    \cup
      (IF DataRequired(f.password) THEN {} ELSE {"password"})
    \cup
      (IF DataRequired(f.confirm) /\ EqualTo(f.confirm, f.password)
       THEN {} ELSE {"confirm"})

LoginFormErrors(f) ==
      (IF DataRequired(f.username) THEN {} ELSE {"username"})
    \cup
      (IF DataRequired(f.password) THEN {} ELSE {"password"})

Genres == {"action", "comedy", "drama", "horror", "sci-fi", "thriller", "other"}

MovieFormErrors(f) ==
      (IF DataRequired(f.title) /\ Length(f.title, 0, TitleMax)
       THEN {} ELSE {"title"})
    \cup
      (IF DataRequired(f.year) /\ Length(f.year, YearLen, YearLen)
       THEN {} ELSE {"year"})
    \cup
      (IF f.genre \in Genres THEN {} ELSE {"genre"})
    \cup
      (IF DataRequired(f.director) /\ Length(f.director, 0, DirectorMax)
       THEN {} ELSE {"director"})

Ratings == 1..5

\* int(): an optional sign and decimal digits, otherwise a ValueError.
IsInt(s) ==
    \/ s # <<>> /\ AllDigits(s)
    \/ Len(s) > 1 /\ s[1] = 45 /\ AllDigits(Tail(s))

coerce_int(s) ==
    IF s[1] = 45 THEN 0 - DecimalValue(Tail(s)) ELSE DecimalValue(s)

\* A rating field that coerces but does not check the choices.
ReviewFormErrors_noChoices(f) ==
      (IF IsInt(f.rating) THEN {} ELSE {"rating"})
    \cup
      (IF Length(f.comment, 0, CommentMax) THEN {} ELSE {"comment"})

\* The rating field holds data only if the input coerces and is a choice.
ReviewFormErrors(f) ==
      (IF IsInt(f.rating) /\ coerce_int(f.rating) \in Ratings
       THEN {} ELSE {"rating"})
    \cup
      (IF Length(f.comment, 0, CommentMax) THEN {} ELSE {"comment"})

-----------------------------------------------------------------------------
(* Initial state: empty tables, every client anonymous *)

Init ==
    /\ users = <<>>
    /\ movies = <<>>
    /\ reviews = <<>>
    /\ session = [c \in Clients |-> 0]
    /\ pend = [c \in Clients |-> NoReq]
    /\ resp = Response("none", 0, "none", {}, <<>>)
    /\ registered = <<>>
    /\ presented = [c \in Clients |-> None]

-----------------------------------------------------------------------------
(* register: the form is validated, then the row is inserted and committed. *)
(* Another request may commit between the two steps.                        *)

RegisterValidate(c, f) ==
    /\ pend[c] = NoReq
    /\ IF RegistrationFormErrors(f) # {}
       THEN /\ resp' = FormErrors("register", c, RegistrationFormErrors(f))
            /\ pend' = pend
       ELSE /\ pend' = [pend EXCEPT ![c] = f]
            /\ resp' = resp
    /\ UNCHANGED <<users, movies, reviews, session, registered, presented>>

RegisterCommit(c, salt) ==
    /\ pend[c] # NoReq
    /\ LET form == pend[c]
           user == set_password([id |-> NextId(users),
                                 username |-> form.username,
                                 email |-> form.email,
                                 password_hash |-> None],
                                form.password, salt)
       IN  IF UniqueViolation(user)
           THEN \* IntegrityError out of commit(), not caught by the handler
                /\ resp' = Failure("register", c, "InternalServerError")
                /\ UNCHANGED <<users, registered>>
           ELSE /\ users' = Append(users, user)
                /\ registered' = Append(registered, form.password)
                /\ resp' = Success("register", c)
    /\ pend' = [pend EXCEPT ![c] = NoReq]
    /\ UNCHANGED <<movies, reviews, session, presented>>

\* A session that remembers the first user whoever logged in.
login_user_first(c, user) == [session EXCEPT ![c] = 1]

login_user(c, user) == [session EXCEPT ![c] = user.id]

Login(c, f) ==
    /\ IF LoginFormErrors(f) # {}
       THEN /\ resp' = FormErrors("login", c, LoginFormErrors(f))
            /\ UNCHANGED <<session, presented>>
       ELSE LET user == UserByUsername(f.username)
            IN  IF user # None /\ check_password(user, f.password)
                THEN /\ session' = login_user(c, user)
                     /\ presented' = [presented EXCEPT ![c] = f]
                     /\ resp' = Success("login", c)
                ELSE /\ resp' = Failure("login", c, "InvalidCredentials")
                     /\ UNCHANGED <<session, presented>>
    /\ UNCHANGED <<users, movies, reviews, pend, registered>>

logout_user(c) == [session EXCEPT ![c] = 0]

Logout(c) ==
    /\ IF ~is_authenticated(c)
       THEN /\ resp' = Failure("logout", c, "Unauthorized")
            /\ UNCHANGED <<session, presented>>
       ELSE /\ session' = logout_user(c)
            /\ presented' = [presented EXCEPT ![c] = None]
            /\ resp' = Success("logout", c)
    /\ UNCHANGED <<users, movies, reviews, pend, registered>>

-----------------------------------------------------------------------------
(* The catalogue *)

Index(c) ==
    /\ \E scan \in Scans(movies) : resp' = Page("index", c, OrderByTitle(scan))
    /\ UNCHANGED <<users, movies, reviews, session, pend, registered, presented>>

MovieDetail(c, movie_id) ==
    /\ IF Get(movies, movie_id) = None
       THEN resp' = Failure("movie_detail", c, "NotFound")
       ELSE \E scan \in Scans(reviews) :
                LET OfMovie(r) == r.movie_id = movie_id
                IN  resp' = Page("movie_detail", c,
                                 OrderByTimestampDesc(SelectSeq(scan, OfMovie)))
    /\ UNCHANGED <<users, movies, reviews, session, pend, registered, presented>>

\* add_movie without @login_required.
AddMovie_noLoginRequired(c, f) ==
    /\ IF MovieFormErrors(f) # {}
       THEN /\ resp' = FormErrors("add_movie", c, MovieFormErrors(f))
            /\ movies' = movies
       ELSE /\ movies' = Append(movies, [id |-> NextId(movies),
                                         title |-> f.title,
                                         year |-> StoreInteger(f.year),
                                         genre |-> f.genre,
                                         director |-> f.director,
                                         description |-> f.description])
            /\ resp' = Success("add_movie", c)
    /\ UNCHANGED <<users, reviews, session, pend, registered, presented>>

AddMovie(c, f) ==
    /\ IF ~is_authenticated(c)
       THEN /\ resp' = Failure("add_movie", c, "Unauthorized")
            /\ movies' = movies
       ELSE IF MovieFormErrors(f) # {}
       THEN /\ resp' = FormErrors("add_movie", c, MovieFormErrors(f))
            /\ movies' = movies
       ELSE /\ movies' = Append(movies, [id |-> NextId(movies),
                                         title |-> f.title,
                                         year |-> StoreInteger(f.year),
                                         genre |-> f.genre,
                                         director |-> f.director,
                                         description |-> f.description])
            /\ resp' = Success("add_movie", c)
    /\ UNCHANGED <<users, reviews, session, pend, registered, presented>>

\* add_review without get_or_404.
AddReview_noLookup(c, movie_id, f, now) ==
    /\ IF ~is_authenticated(c)
       THEN /\ resp' = Failure("add_review", c, "Unauthorized")
            /\ reviews' = reviews
       ELSE IF ReviewFormErrors(f) # {}
       THEN /\ resp' = FormErrors("add_review", c, ReviewFormErrors(f))
            /\ reviews' = reviews
       ELSE /\ reviews' = Append(reviews, [id |-> NextId(reviews),
                                           rating |-> coerce_int(f.rating),
                                           comment |-> f.comment,
                                           timestamp |-> now,
                                           user_id |-> current_user(c).id,
                                           movie_id |-> movie_id])
            /\ resp' = Success("add_review", c)
    /\ UNCHANGED <<users, movies, session, pend, registered, presented>>

AddReview(c, movie_id, f, now) ==
    /\ IF ~is_authenticated(c)
       THEN /\ resp' = Failure("add_review", c, "Unauthorized")
            /\ reviews' = reviews
       ELSE IF Get(movies, movie_id) = None
       THEN /\ resp' = Failure("add_review", c, "NotFound")
            /\ reviews' = reviews
       ELSE IF ReviewFormErrors(f) # {}
       THEN /\ resp' = FormErrors("add_review", c, ReviewFormErrors(f))
            /\ reviews' = reviews
       ELSE /\ reviews' = Append(reviews, [id |-> NextId(reviews),
                                           rating |-> coerce_int(f.rating),
                                           comment |-> f.comment,
                                           timestamp |-> now,
                                           user_id |-> current_user(c).id,
                                           movie_id |-> movie_id])
            /\ resp' = Success("add_review", c)
    /\ UNCHANGED <<users, movies, session, pend, registered, presented>>

-----------------------------------------------------------------------------
(* Inputs *)

alice == <<97, 108, 105, 99, 101>>

bobby == <<98, 111, 98, 98, 121>>

bob == <<98, 111, 98>>

alice_mail == <<97, 64, 120, 46, 99, 111>>

bobby_mail == <<98, 64, 120, 46, 99, 111>>

bad_mail == <<97, 120, 46, 99, 111, 109>>

pw1 == <<112, 119, 49>>

pw2 == <<112, 119, 50>>

RegForm(username, email, password, confirm) ==
    [username |-> username, email |-> email, password |-> password, confirm |-> confirm]

ValidRegistrations ==
    {RegForm(alice, alice_mail, pw1, pw1), RegForm(alice, bobby_mail, pw2, pw2),
     RegForm(bobby, bobby_mail, pw2, pw2), RegForm(bobby, alice_mail, pw1, pw1)}

InvalidRegistrations ==
    {RegForm(bob, alice_mail, pw1, pw1), RegForm(<<>>, alice_mail, pw1, pw1),
     RegForm(alice, bad_mail, pw1, pw1), RegForm(alice, <<>>, pw1, pw1),
     RegForm(alice, alice_mail, <<>>, <<>>), RegForm(alice, alice_mail, pw1, pw2)}

RegistrationForms == ValidRegistrations \cup InvalidRegistrations

LoginForms ==
    [username : {alice, bobby}, password : {pw1, pw2}]
    \cup {[username |-> <<>>, password |-> pw1], [username |-> alice, password |-> <<>>]}

Salts == {1, 2}

Dune == <<68, 117, 110, 101>>

Duel == <<68, 117, 101, 108>>

Du == <<68, 117>>

y2021 == <<50, 48, 50, 49>>

abcd == <<97, 98, 99, 100>>

Villeneuve == <<86>>

MovieFormOf(title, year, genre, director) ==
    [title |-> title, year |-> year, genre |-> genre, director |-> director,
     description |-> <<>>]

ValidMovies ==
    {MovieFormOf(t, y, "sci-fi", Villeneuve) : t \in {Dune, Duel, Du}, y \in {y2021, abcd}}

InvalidMovies ==
    {MovieFormOf(<<>>, y2021, "sci-fi", Villeneuve),
     MovieFormOf(Repeat(68, TitleMax + 1), y2021, "sci-fi", Villeneuve),
     MovieFormOf(Dune, <<50, 49>>, "sci-fi", Villeneuve),
     MovieFormOf(Dune, <<50, 48, 50, 49, 48>>, "sci-fi", Villeneuve),
     MovieFormOf(Dune, Repeat(32, YearLen), "sci-fi", Villeneuve),
     MovieFormOf(Dune, y2021, "western", Villeneuve),
     MovieFormOf(Dune, abcd, "", Villeneuve),
     MovieFormOf(Dune, y2021, "sci-fi", <<>>)}

MovieForms == ValidMovies \cup InvalidMovies

ReviewFormOf(rating, comment) == [rating |-> rating, comment |-> comment]

RatingInputs == {<<48>>, <<49>>, <<53>>, <<54>>, <<45, 49>>, <<120>>, <<>>}

ReviewForms ==
    {ReviewFormOf(r, <<>>) : r \in RatingInputs}
    \cup {ReviewFormOf(<<53>>, Repeat(120, CommentMax + 1))}

Times == {1, 2}

\* Every stored movie, and an id that no movie has.
MovieIds == 1..(MaxMovies + 1)

\* The inputs of the whole application: two users, one movie form, the
\* first movie or none, a good and a bad rating, one instant.
CoreRegistrations ==
    {RegForm(alice, alice_mail, pw1, pw1), RegForm(bobby, bobby_mail, pw2, pw2),
     RegForm(bobby, alice_mail, pw2, pw2)}

CoreLogins == [username : {alice, bobby}, password : {pw1, pw2}]

CoreMovieForms ==
    {MovieFormOf(Dune, y2021, "sci-fi", Villeneuve),
     MovieFormOf(Dune, y2021, "western", Villeneuve)}

CoreMovieIds == {1, MaxMovies + 1}

CoreReviewForms == {ReviewFormOf(<<53>>, <<>>), ReviewFormOf(<<54>>, <<>>)}

CoreTimes == {1}

\* The inputs of the reviews of one user: one good and one bad rating, at
\* either of two instants, for any movie id.
ListedReviewForms == {ReviewFormOf(<<53>>, <<>>), ReviewFormOf(<<>>, <<>>)}

-----------------------------------------------------------------------------
(* Accounts: registration, login and logout, by two clients *)

NextAccounts ==
    \/ \E c \in Clients, f \in RegistrationForms : RegisterValidate(c, f)
    \/ \E c \in Clients, salt \in Salts : RegisterCommit(c, salt)
    \/ \E c \in Clients, f \in LoginForms : Login(c, f)
    \/ \E c \in Clients : Logout(c)

SpecAccounts == Init /\ [][NextAccounts]_vars

(* The movie catalogue, filled by one registered user *)

NextMovies ==
    \/ RegisterValidate(1, RegForm(alice, alice_mail, pw1, pw1))
    \/ RegisterCommit(1, 1)
    \/ Login(1, [username |-> alice, password |-> pw1])
    \/ Logout(1)
    \/ \E f \in MovieForms : AddMovie(1, f) /\ Len(movies') <= MaxMovies
    \/ Index(1)

SpecMovies == Init /\ [][NextMovies]_vars

(* The ratings one registered user gives to the first movie *)

NextRatings ==
    \/ RegisterValidate(1, RegForm(alice, alice_mail, pw1, pw1))
    \/ RegisterCommit(1, 1)
    \/ Login(1, [username |-> alice, password |-> pw1])
    \/ Logout(1)
    \/ AddMovie(1, MovieFormOf(Dune, y2021, "sci-fi", Villeneuve)) /\ Len(movies') <= MaxMovies
    \/ \E m \in CoreMovieIds, f \in ReviewForms, now \in CoreTimes :
           AddReview(1, m, f, now) /\ Len(reviews') <= MaxReviews

SpecRatings == Init /\ [][NextRatings]_vars

(* The reviews of the movies, written by one registered user and listed *)

NextReviews ==
    \/ RegisterValidate(1, RegForm(alice, alice_mail, pw1, pw1))
    \/ RegisterCommit(1, 1)
    \/ Login(1, [username |-> alice, password |-> pw1])
    \/ Logout(1)
    \/ AddMovie(1, MovieFormOf(Dune, y2021, "sci-fi", Villeneuve)) /\ Len(movies') <= MaxMovies
    \/ \E m \in MovieIds, f \in ListedReviewForms, now \in Times :
           AddReview(1, m, f, now) /\ Len(reviews') <= MaxReviews
    \/ \E m \in MovieIds : MovieDetail(1, m)

SpecReviews == Init /\ [][NextReviews]_vars

(* The whole application: two clients, either of which may be either of   *)
(* two users                                                               *)

Next ==
    \/ \E f \in CoreRegistrations : RegisterValidate(1, f)
    \/ RegisterCommit(1, 1)
    \/ \E c \in Clients, f \in CoreLogins : Login(c, f)
    \/ \E c \in Clients : Logout(c)
    \/ \E c \in Clients, f \in CoreMovieForms : AddMovie(c, f) /\ Len(movies') <= MaxMovies
    \/ \E c \in Clients, m \in CoreMovieIds, f \in CoreReviewForms, now \in CoreTimes :
           AddReview(c, m, f, now) /\ Len(reviews') <= MaxReviews
    \/ Index(1)
    \/ \E m \in CoreMovieIds : MovieDetail(1, m)

Spec == Init /\ [][Next]_vars

-----------------------------------------------------------------------------
(* Properties *)

UsernameTaken(username) == \E u \in Rows(users) : u.username = username

EmailTaken(email) == \E u \in Rows(users) : u.email = email

\* The step in which client c's register request is committed or fails.
RegisterEnds(c) == pend[c] # NoReq /\ pend'[c] = NoReq

\* The steps in which a request of client c is answered.
LoginStep(c, f) ==
    resp'.op = "login" /\ resp'.client = c /\ Login(c, f)

AddMovieStep(c, f) ==
    resp'.op = "add_movie" /\ resp'.client = c /\ AddMovie(c, f)

AddReviewStep(c, m, f, now) ==
    resp'.op = "add_review" /\ resp'.client = c /\ AddReview(c, m, f, now)

MovieDetailStep(c, m) ==
    resp'.op = "movie_detail" /\ resp'.client = c /\ MovieDetail(c, m)

IndexStep(c) ==
    resp'.op = "index" /\ resp'.client = c /\ Index(c)

UserIds == {u.id : u \in Rows(users)}

MovieIdsStored == {m.id : m \in Rows(movies)}

\* C1: in every reachable state no two distinct users share a username and
\* no two share an email, also when register requests with the same username
\* or email interleave between validation and commit.
C1_UniqueUsers ==
    \A i, j \in 1..Len(users) :
        i # j => /\ users[i].username # users[j].username
                 /\ users[i].email # users[j].email
                 /\ users[i].id # users[j].id

\* A request validated with a username that another client's request, in
\* flight at the same time, has just committed, and a second user stored.
C1_Witness ==
    /\ Len(users) = 2
    /\ \E c \in Clients :
          /\ pend[c] # NoReq
          /\ UsernameTaken(pend[c].username) \/ EmailTaken(pend[c].email)
          /\ resp.op = "register" /\ resp.outcome = "Success" /\ resp.client # c

\* C2: a register request whose username is taken fails with
\* DuplicateUsername, one whose email is taken fails with DuplicateEmail, as
\* a recoverable error, and the users are unchanged.
C2_DuplicateIsRecoverableError ==
    [][\A c \in Clients :
          RegisterEnds(c) =>
             /\ UsernameTaken(pend[c].username) =>
                   users' = users /\ resp'.outcome = "DuplicateUsername"
             /\ (EmailTaken(pend[c].email) /\ ~UsernameTaken(pend[c].username)) =>
                   users' = users /\ resp'.outcome = "DuplicateEmail"]_vars

\* C3: a valid registration whose username and email are free succeeds;
\* from then on a login with that username succeeds exactly when the
\* password is the registered one, whatever requests came in between.
C3_LoginAfterRegister ==
    [][/\ \A c \in Clients :
             (RegisterEnds(c) /\ ~UsernameTaken(pend[c].username)
                              /\ ~EmailTaken(pend[c].email)) =>
                 /\ resp'.outcome = "Success"
                 /\ Len(users') = Len(users) + 1
                 /\ users'[Len(users')].username = pend[c].username
                 /\ users'[Len(users')].email = pend[c].email
                 /\ registered'[Len(users')] = pend[c].password
       /\ \A i \in 1..Len(users) : users'[i] = users[i] /\ registered'[i] = registered[i]
       /\ \A c \in Clients, f \in CoreLogins :
             LoginStep(c, f) =>
                \A i \in 1..Len(users) :
                    users[i].username = f.username =>
                       IF f.password = registered[i]
                       THEN resp'.outcome = "Success" /\ session'[c] = users[i].id
                       ELSE resp'.outcome # "Success" /\ session'[c] = session[c]
      ]_vars

\* Both users registered, a movie and a review added, and then a login.
C3_Witness ==
    /\ Len(users) = 2 /\ Len(movies) >= 1 /\ Len(reviews) >= 1
    /\ resp.op = "login" /\ resp.outcome = "Success"
    /\ session[resp.client] = 2
    /\ presented[resp.client].password = registered[2]

\* The stored users that form f names and whose hash its password verifies.
Verified(f) ==
    {i \in 1..Len(users) : /\ LoginFormErrors(f) = {}
                           /\ users[i].username = f.username
                           /\ check_password(users[i], f.password)}

\* Every open session belongs to a stored user whose credentials were
\* presented in the login that opened it.
SessionIntegrity ==
    \A c \in Clients :
        session[c] # 0 =>
           /\ session[c] \in UserIds
           /\ presented[c] # None
           /\ presented[c].username = users[session[c]].username
           /\ presented[c].password = registered[session[c]]

\* C4, as stated: login opens the session of u only when u has the username
\* and the password verifies; in every other case in which credentials were
\* presented the session is Anonymous afterwards and InvalidCredentials is
\* signalled.
C4_FailedLoginLeavesAnonymous ==
    [][\A c \in Clients, f \in LoginForms :
          (LoginStep(c, f) /\ LoginFormErrors(f) = {}) =>
             IF Verified(f) # {}
             THEN \E i \in Verified(f) : session'[c] = users[i].id
             ELSE session'[c] = 0 /\ resp'.outcome = "InvalidCredentials"]_vars

\* C4, amended: login opens the session of u only when u has the username
\* and the password verifies; in every other case the session is left as it
\* was (Anonymous stays Anonymous, an open session stays open), with
\* InvalidCredentials signalled when both fields were filled in and a
\* validation error otherwise.  A session is open only for a stored user
\* whose credentials opened it.
C4_FailedLoginLeavesSession ==
    [][/\ \A c \in Clients, f \in LoginForms :
             LoginStep(c, f) =>
                IF Verified(f) # {}
                THEN /\ \E i \in Verified(f) : session'[c] = users[i].id
                     /\ resp'.outcome = "Success"
                ELSE /\ session'[c] = session[c]
                     /\ session[c] = 0 => session'[c] = 0
                     /\ resp'.outcome = IF LoginFormErrors(f) = {}
                                        THEN "InvalidCredentials" ELSE "ValidationError"
       /\ SessionIntegrity'
      ]_vars

\* A failed login by a client logged in as the second user.
C4_Witness ==
    /\ resp.op = "login" /\ resp.outcome = "InvalidCredentials"
    /\ session[resp.client] = 2

\* C5: add-review and add-movie by an Anonymous session fail with
\* Unauthorized and persist nothing; every stored review carries the id of
\* the user authenticated in the request that created it.
C5_AnonymousWritesNothing ==
    [][/\ \A c \in Clients, f \in CoreMovieForms :
             (session[c] = 0 /\ AddMovieStep(c, f)) =>
                 /\ resp'.outcome = "Unauthorized"
                 /\ movies' = movies /\ reviews' = reviews
       /\ \A c \in Clients, m \in CoreMovieIds, f \in CoreReviewForms, now \in CoreTimes :
             (session[c] = 0 /\ AddReviewStep(c, m, f, now)) =>
                 /\ resp'.outcome = "Unauthorized"
                 /\ movies' = movies /\ reviews' = reviews
       /\ \A c \in Clients, m \in CoreMovieIds, f \in CoreReviewForms, now \in CoreTimes :
             (reviews' # reviews /\ AddReviewStep(c, m, f, now)) =>
                 /\ session[c] # 0
                 /\ reviews' = Append(reviews, reviews'[Len(reviews')])
                 /\ reviews'[Len(reviews')].user_id = session[c]
      ]_vars

\* An Anonymous add-review refused while reviews of both users are stored.
C5_Witness ==
    /\ resp.op = "add_review" /\ resp.outcome = "Unauthorized"
    /\ session[resp.client] = 0
    /\ Len(movies) >= 1
    /\ {r.user_id : r \in Rows(reviews)} = {1, 2}

OutOfRange(f) == ~(IsInt(f.rating) /\ coerce_int(f.rating) \in 1..5)

InvalidRating(r) == r.outcome = "ValidationError" /\ "rating" \in r.errors

RatingsInRange == \A r \in Rows(reviews) : r.rating \in 1..5

C7_ReviewReferences ==
    [][/\ \A c \in Clients, m \in CoreMovieIds, f \in CoreReviewForms, now \in CoreTimes :
             (session[c] # 0 /\ m \notin MovieIdsStored /\ AddReviewStep(c, m, f, now)) =>
                 resp'.outcome = "NotFound" /\ reviews' = reviews
       /\ \A r \in Rows(reviews') :
             r.movie_id \in MovieIdsStored' /\ r.user_id \in UserIds'
      ]_vars

\* NotFound for a logged-in user while a review is stored.
C7_Witness ==
    /\ resp.op = "add_review" /\ resp.outcome = "NotFound"
    /\ session[resp.client] # 0
    /\ Len(movies) >= 1 /\ Len(reviews) >= 1

FourDigits(s) == Len(s) = 4 /\ AllDigits(s)

\* C8: a movie whose genre is not one of the seven or whose year is not a
\* numeral of four characters is not persisted; every stored movie has a
\* genre of the set and a year of four digits.
C8_MovieValidated ==
    [][/\ \A c \in Clients, f \in MovieForms :
             ((f.genre \notin Genres \/ ~FourDigits(f.year)) /\ AddMovieStep(c, f)) =>
                 movies' = movies
       /\ \A m \in Rows(movies') :
             /\ m.genre \in Genres
             /\ m.year.type = "integer"
             /\ m.year.value \in 0..9999
      ]_vars

IsPermutationOf(list, rows) ==
    /\ Len(list) = Cardinality(rows)
    /\ {list[i] : i \in 1..Len(list)} = rows

\* C9: the listing of a movie is exactly its stored reviews, newest first
\* (empty when it has none), and a review later than all the others of the
\* movie comes first.
C9_ReviewsNewestFirst ==
    [][\A c \in Clients, m \in MovieIds :
          (m \in MovieIdsStored /\ MovieDetailStep(c, m)) =>
             LET list == resp'.body
                 mine == {r \in Rows(reviews) : r.movie_id = m}
             IN  /\ resp'.outcome = "Success"
                 /\ IsPermutationOf(list, mine)
                 /\ \A i, j \in 1..Len(list) :
                       i < j => list[i].timestamp >= list[j].timestamp
                 /\ \A r \in mine :
                       (\A o \in mine \ {r} : o.timestamp < r.timestamp) => list[1] = r
      ]_vars

\* A listing of two reviews in which the review added last, and later than
\* the other, comes first.
C9_Witness ==
    /\ resp.op = "movie_detail" /\ Len(resp.body) = 2
    /\ resp.body[1].id > resp.body[2].id
    /\ resp.body[1].timestamp > resp.body[2].timestamp

\* C10: the movie list holds every stored movie exactly once, in ascending
\* order of title, whatever the order of insertion.
C10_MoviesByTitle ==
    [][\A c \in Clients :
          IndexStep(c) =>
             LET list == resp'.body
             IN  /\ IsPermutationOf(list, Rows(movies))
                 /\ \A i, j \in 1..Len(list) :
                       i < j => ~StrLess(list[j].title, list[i].title)
      ]_vars

\* A list of two movies in which the movie added last comes first.
C10_Witness ==
    /\ resp.op = "index" /\ Len(resp.body) = 2
    /\ resp.body[1].id = 2
    /\ StrLess(resp.body[1].title, resp.body[2].title)

=============================================================================
